---- MODULE Spec2Model ----
(***************************************************************************)
(* The append-only transaction ledger of bitea: Transaction, Block (with   *)
(* its proof-of-work search) and Blockchain (chain, pending pool, mutex).  *)
(*                                                                         *)
(* Strings are sequences of character codes.  Codes 0..15 are the sixteen  *)
(* hexadecimal characters '0'..'9','a'..'f' (so a decimal digit is its own *)
(* code), 16 is '-', and 17.. are other letters.                           *)
(***************************************************************************)
EXTENDS Integers, Sequences, FiniteSets, TLC

\* ------------------------------------------------------------------ bounds

\* Number of hex characters of a digest (64 in the source, scaled down).
HashLen == 2

\* Width in bits of the C++ int that holds Block::nonce (32 in the source).
IntBits == 6

\* Largest maxTxPerBlock a ledger is constructed with.
MaxPerBlock == 2

\* Width in bits of size_t (64 in the source).
SizeTBits == 16

\* Number of calls (addTransaction and minePendingTransactionsPublic together)
\* made on one ledger.
MaxCalls == 3

\* Last reading of the wall clock, in seconds.
MaxTime == 2

\* ------------------------------------------------------------ the callers

Main == "main"

Threads == {"t1", "t2"}

Procs == Threads \cup {Main}

NoThread == "none"

\* ----------------------------------------------------------------- strings

RECURSIVE DecNat(_)
\* operator<<(int) / operator<<(time_t) for a value >= 0: its decimal digits.
DecNat(n) == IF n < 10 THEN <<n>> ELSE DecNat(n \div 10) \o <<n % 10>>

\* operator<<(int): decimal digits, with a leading '-' (code 16) when negative.
Dec(n) == IF n < 0 THEN <<16>> \o DecNat(0 - n) ELSE DecNat(n)

\* A target made of '1' characters instead of '0'.
Zeros_ones(n) == [i \in 1..n |-> 1]

\* std::string(n, '0')
Zeros(n) == [i \in 1..n |-> 0]

\* std::string::substr(0, n): the first n characters, or all of them when the
\* string is shorter.
SubstrFrom0(s, n) == SubSeq(s, 1, IF n < Len(s) THEN n ELSE Len(s))

\* ------------------------------------------------------------ Transaction

\* enum class TransactionType, by its integer code.
POST == 0
LIKE == 1
USER_REGISTRATION == 4

\* Transaction::generateId: sender-type-timestamp.
generateId(sender, type, timestamp) ==
    sender \o <<16>> \o Dec(type) \o <<16>> \o Dec(timestamp)

\* Transaction::Transaction at clock reading t.
Transaction(sender, type, data, t) ==
    [ id        |-> generateId(sender, type, t),
      sender    |-> sender,
      type      |-> type,
      data      |-> data,
      timestamp |-> t ]

\* A serialization that leaves the data out.
serialize_noData(tx) == tx.sender \o Dec(tx.type) \o Dec(tx.timestamp)

\* Transaction::serialize: sender, type code, timestamp, data, no separators.
serialize(tx) == tx.sender \o Dec(tx.type) \o Dec(tx.timestamp) \o tx.data

\* The (sender, type, data) triples callers submit: "a"/POST/"c", "b"/LIKE/"".
TxInputs == { <<<<10>>, POST, <<12>>>>, <<<<11>>, LIKE, <<>>>> }

\* ------------------------------------------------------------------ Block

RECURSIVE transactionsToString(_)
\* Block::transactionsToString: the serializations, concatenated in order.
transactionsToString(txs) ==
    IF txs = <<>> THEN <<>>
    ELSE serialize(Head(txs)) \o transactionsToString(Tail(txs))

HashMod == 16 ^ HashLen

\* SHA256_Update: the state after absorbing a byte string, byte by byte from
\* its first.  SHA-256 itself is OpenSSL's; it is modelled as a deterministic
\* function of the whole byte string into the digests of HashLen hex
\* characters, in which every byte bears on every character of the digest.
Update(h, data) ==
    LET absorbed[s \in Seq(Nat)] ==
            IF s = <<>> THEN h
            ELSE (absorbed[SubSeq(s, 1, Len(s) - 1)] * 37 + s[Len(s)] + 11) % HashMod
    IN  absorbed[data]

\* SHA256_Final: the digest, as a number below 16^HashLen (the last four bits
\* of the state are moved to the front).
Final(h) == (h % 16) * (HashMod \div 16) + (h \div 16)

RECURSIVE Hex(_, _)
\* std::hex << std::setw(2) << std::setfill('0'): n as len hex characters.
Hex(n, len) == IF len = 0 THEN <<>> ELSE Hex(n \div 16, len - 1) \o <<n % 16>>

\* Block::sha256: the digest as a lowercase hex string of fixed length.
sha256(data) == Hex(Final(Update(5, data)), HashLen)

\* Block::calculateHash
calculateHash(b) ==
    sha256(Dec(b.index) \o b.previousHash \o Dec(b.timestamp)
           \o transactionsToString(b.transactions) \o Dec(b.nonce))

\* Block::Block at clock reading t: nonce 0 and the hash of that.
Block(index, previousHash, transactions, diff, t) ==
    LET b == [ index        |-> index,
               previousHash |-> previousHash,
               hash         |-> <<>>,
               timestamp    |-> t,
               transactions |-> transactions,
               nonce        |-> 0,
               difficulty   |-> diff ]
    IN  [b EXCEPT !.hash = calculateHash(b)]

\* An exit test that looks at one character too few.
MeetsTarget_short(b) ==
    SubstrFrom0(b.hash, b.difficulty - 1) = Zeros(b.difficulty - 1)

\* The exit test of the do-while loop of Block::mineBlock.
MeetsTarget(b) == SubstrFrom0(b.hash, b.difficulty) = Zeros(b.difficulty)

\* An isValid that only looks for the leading zeros.
isValid_zerosOnly(b) == MeetsTarget(b)

\* Block::isValid
isValid(b) == MeetsTarget(b) /\ b.hash = calculateHash(b)

IntMax == 2 ^ (IntBits - 1) - 1

IntMin == 0 - 2 ^ (IntBits - 1)

\* A loop body that forgets to recompute the hash.
MineIteration_stale(b, n) == [b EXCEPT !.nonce = n]

\* A loop body that also moves the timestamp on with every attempt.
MineIteration_restamps(b, n) ==
    LET c == [b EXCEPT !.nonce = n, !.timestamp = @ + 1]
    IN  [c EXCEPT !.hash = calculateHash(c)]

\* One iteration of the loop body of Block::mineBlock with the nonce n.
MineIteration(b, n) ==
    LET c == [b EXCEPT !.nonce = n] IN [c EXCEPT !.hash = calculateHash(c)]

NoBlock == [ index |-> -1 ]

\* ------------------------------------------------------------- Blockchain

VARIABLES
    difficulty,               \* Blockchain::difficulty
    maxTransactionsPerBlock,  \* Blockchain::maxTransactionsPerBlock
    chain,                    \* Blockchain::chain
    pendingTransactions,      \* Blockchain::pendingTransactions
    chainMutex,               \* the thread that holds Blockchain::chainMutex
    pc,                       \* where each caller is
    transaction,              \* addTransaction's argument, per thread
    newBlock,                 \* the block a caller has built and is mining
    txCount,                  \* minePendingTransactions' local, per thread
    now,                      \* std::time(nullptr)
    aborted,                  \* the process was killed by a trapping overflow
    submitted,                \* history: the transactions, in the order the
                              \* addTransaction calls acquired the mutex
    mineCalls                 \* history: minePendingTransactionsPublic calls

vars == << difficulty, maxTransactionsPerBlock, chain, pendingTransactions,
           chainMutex, pc, transaction, newBlock, txCount, now, aborted,
           submitted, mineCalls >>

NoTx == [ id |-> <<>> ]

\* "{\"message\":\"Genesis Block - Bitea Social Media Blockchain\"}", shortened
\* to "{}" (codes 20, 21); the sender "SYSTEM" is shortened to "SY" (17, 18).
GenesisSender == <<17, 18>>

GenesisData == <<20, 21>>

\* A conversion that takes a negative int to 0.
ToSizeT_clamped(n) == IF n < 0 THEN 0 ELSE n

\* static_cast<size_t>(int): the value modulo 2^SizeTBits, so that a negative
\* int becomes a large unsigned value.
ToSizeT(n) == n % (2 ^ SizeTBits)

Min(a, b) == IF a < b THEN a ELSE b

\* A getLatestBlock that returns chain.front() instead of chain.back().
getLatestBlock_front == chain[1]

\* Blockchain::getLatestBlock
getLatestBlock == chain[Len(chain)]

\* A push that overwrites the last block instead of appending.
PushBack_overwrite(c, b) == [c EXCEPT ![Len(c)] = b]

\* chain.push_back(newBlock)
PushBack(c, b) == Append(c, b)

\* The difficulties a ledger is constructed with: none, one leading zero, and
\* the first one that is longer than a digest.
Difficulties == {0, 1, HashLen + 1}

\* The maxTxPerBlock values a ledger is constructed with: a negative one, zero
\* and the positive ones up to MaxPerBlock.
MaxTxPerBlockValues == (0 - 1)..MaxPerBlock

\* The member initialisers of Blockchain::Blockchain have run; its body (the
\* genesis block) has not.
Init ==
    /\ difficulty \in Difficulties
    /\ maxTransactionsPerBlock \in MaxTxPerBlockValues
    /\ chain = <<>>
    /\ pendingTransactions = <<>>
    /\ chainMutex = NoThread
    /\ pc = [p \in Procs |-> IF p = Main THEN "createGenesisBlock" ELSE "idle"]
    /\ transaction = [t \in Threads |-> NoTx]
    /\ newBlock = [p \in Procs |-> NoBlock]
    /\ txCount = [t \in Threads |-> 0]
    /\ now = 1
    /\ aborted = FALSE
    /\ submitted = <<>>
    /\ mineCalls = 0

\* The constructor has returned: the ledger exists and can be called.
Constructed == pc[Main] = "constructed"

\* Blockchain::createGenesisBlock up to the call of mineBlock.
createGenesisBlock ==
    /\ ~aborted
    /\ pc[Main] = "createGenesisBlock"
    /\ newBlock' = [newBlock EXCEPT ![Main] =
           Block(0, <<0>>,
                 << Transaction(GenesisSender, USER_REGISTRATION, GenesisData, now) >>,
                 difficulty, now)]
    /\ pc' = [pc EXCEPT ![Main] = "mineBlock"]
    /\ UNCHANGED << difficulty, maxTransactionsPerBlock, chain, pendingTransactions,
                    chainMutex, transaction, txCount, now, aborted, submitted,
                    mineCalls >>

\* nonce++ overflows the int: undefined behaviour.
Overflows(n) == n = IntMax

\* The value of nonce after nonce++ when the build wraps an overflow.
Increment(n) == IF Overflows(n) THEN IntMin ELSE n + 1

\* Where a caller goes when its mineBlock returns.
AfterMineBlock(p) == IF p = Main THEN "pushGenesis" ELSE "pushBlock"

\* A mineBlock whose loop runs once, whatever the hash it finds.
mineBlock_singleTry(p) ==
    /\ ~aborted
    /\ pc[p] = "mineBlock"
    /\ newBlock' = [newBlock EXCEPT ![p] =
           MineIteration(newBlock[p], Increment(newBlock[p].nonce))]
    /\ pc' = [pc EXCEPT ![p] = AfterMineBlock(p)]
    /\ UNCHANGED << difficulty, maxTransactionsPerBlock, chain, pendingTransactions,
                    chainMutex, transaction, txCount, now, aborted, submitted,
                    mineCalls >>

\* Block::mineBlock, one iteration of its do-while loop.  An overflowing
\* nonce++ either wraps (and the loop goes on) or traps (and the process dies).
mineBlock(p) ==
    /\ ~aborted
    /\ pc[p] = "mineBlock"
    /\ \/ LET b == MineIteration(newBlock[p], Increment(newBlock[p].nonce)) IN
          /\ newBlock' = [newBlock EXCEPT ![p] = b]
          /\ pc' = [pc EXCEPT ![p] =
                 IF MeetsTarget(b) THEN AfterMineBlock(p) ELSE "mineBlock"]
          /\ UNCHANGED aborted
       \/ /\ Overflows(newBlock[p].nonce)
          /\ aborted' = TRUE
          /\ UNCHANGED << newBlock, pc >>
    /\ UNCHANGED << difficulty, maxTransactionsPerBlock, chain, pendingTransactions,
                    chainMutex, transaction, txCount, now, submitted, mineCalls >>

\* Blockchain::Blockchain: chain.push_back(createGenesisBlock()).
BlockchainCtor ==
    /\ ~aborted
    /\ pc[Main] = "pushGenesis"
    /\ chain' = Append(chain, newBlock[Main])
    /\ newBlock' = [newBlock EXCEPT ![Main] = NoBlock]
    /\ pc' = [pc EXCEPT ![Main] = "constructed"]
    /\ UNCHANGED << difficulty, maxTransactionsPerBlock, pendingTransactions,
                    chainMutex, transaction, txCount, now, aborted, submitted,
                    mineCalls >>

\* The calls of addTransaction made so far, returned or not.
SubmitCalls == Len(submitted) + Cardinality({t \in Threads : pc[t] = "addTransaction"})

\* A handler that makes the id of its Transaction unique to its thread.
CallAddTransaction_tagged(t) ==
    /\ ~aborted
    /\ Constructed
    /\ pc[t] = "idle"
    /\ SubmitCalls + mineCalls < MaxCalls
    /\ \E in \in TxInputs :
         transaction' = [transaction EXCEPT ![t] =
             [Transaction(in[1], in[2], in[3], now) EXCEPT
                  !.id = @ \o (IF t = "t1" THEN <<16, 1>> ELSE <<16, 2>>)]]
    /\ pc' = [pc EXCEPT ![t] = "addTransaction"]
    /\ UNCHANGED << difficulty, maxTransactionsPerBlock, chain, pendingTransactions,
                    chainMutex, newBlock, txCount, now, aborted, submitted, mineCalls >>

\* A request handler builds a Transaction and calls addTransaction with it.
CallAddTransaction(t) ==
    /\ ~aborted
    /\ Constructed
    /\ pc[t] = "idle"
    /\ SubmitCalls + mineCalls < MaxCalls
    /\ \E in \in TxInputs :
         transaction' = [transaction EXCEPT ![t] = Transaction(in[1], in[2], in[3], now)]
    /\ pc' = [pc EXCEPT ![t] = "addTransaction"]
    /\ UNCHANGED << difficulty, maxTransactionsPerBlock, chain, pendingTransactions,
                    chainMutex, newBlock, txCount, now, aborted, submitted, mineCalls >>

\* A handler that calls minePendingTransactions itself, without the wrapper
\* and so without the mutex.
CallMinePublic_direct(t) ==
    /\ ~aborted
    /\ Constructed
    /\ pc[t] = "idle"
    /\ SubmitCalls + mineCalls < MaxCalls
    /\ mineCalls' = mineCalls + 1
    /\ IF pendingTransactions = <<>>
       THEN UNCHANGED << pc, newBlock, txCount >>
       ELSE /\ txCount' = [txCount EXCEPT ![t] =
                   Min(ToSizeT(maxTransactionsPerBlock), Len(pendingTransactions))]
            /\ newBlock' = [newBlock EXCEPT ![t] =
                   Block(Len(chain), chain[Len(chain)].hash,
                         SubSeq(pendingTransactions, 1,
                                Min(ToSizeT(maxTransactionsPerBlock),
                                    Len(pendingTransactions))),
                         difficulty, now)]
            /\ pc' = [pc EXCEPT ![t] = "mineBlock"]
    /\ UNCHANGED << difficulty, maxTransactionsPerBlock, chain, pendingTransactions,
                    chainMutex, transaction, now, aborted, submitted >>

\* A request handler calls minePendingTransactionsPublic.
CallMinePublic(t) ==
    /\ ~aborted
    /\ Constructed
    /\ pc[t] = "idle"
    /\ SubmitCalls + mineCalls < MaxCalls
    /\ mineCalls' = mineCalls + 1
    /\ pc' = [pc EXCEPT ![t] = "minePendingTransactionsPublic"]
    /\ UNCHANGED << difficulty, maxTransactionsPerBlock, chain, pendingTransactions,
                    chainMutex, transaction, newBlock, txCount, now, aborted,
                    submitted >>

\* A count that ignores maxTransactionsPerBlock and takes the whole pool.
TxCountOf_all(pending) == Len(pending)

\* A count of one transaction a pass.
TxCountOf_single(pending) == Min(1, Len(pending))

\* A count that takes one transaction when maxTransactionsPerBlock is 0.
TxCountOf_atLeastOne(pending) ==
    IF maxTransactionsPerBlock = 0 THEN Min(1, Len(pending))
    ELSE Min(ToSizeT(maxTransactionsPerBlock), Len(pending))

\* The number of transactions a mining pass takes from a pool.
TxCountOf(pending) == Min(ToSizeT(maxTransactionsPerBlock), Len(pending))

\* A minePendingTransactions without the test for an empty pool.
minePendingTransactions_noEmptyTest(t, pending) ==
    /\ txCount' = [txCount EXCEPT ![t] = TxCountOf(pending)]
    /\ newBlock' = [newBlock EXCEPT ![t] =
           Block(Len(chain), getLatestBlock.hash,
                 SubSeq(pending, 1, TxCountOf(pending)), difficulty, now)]
    /\ pc' = [pc EXCEPT ![t] = "mineBlock"]
    /\ chainMutex' = t

\* A minePendingTransactions that gives its block the index of the tip.
minePendingTransactions_indexOfTip(t, pending) ==
    IF pending = <<>>
    THEN /\ pc' = [pc EXCEPT ![t] = "idle"]
         /\ chainMutex' = NoThread
         /\ UNCHANGED << newBlock, txCount >>
    ELSE /\ txCount' = [txCount EXCEPT ![t] = TxCountOf(pending)]
         /\ newBlock' = [newBlock EXCEPT ![t] =
                Block(getLatestBlock.index, getLatestBlock.hash,
                      SubSeq(pending, 1, TxCountOf(pending)), difficulty, now)]
         /\ pc' = [pc EXCEPT ![t] = "mineBlock"]
         /\ chainMutex' = t

\* Blockchain::minePendingTransactions up to the call of mineBlock, run by
\* thread t (which holds the mutex) on the pool `pending`: an empty pool
\* returns at once, otherwise the block is built from the front of the pool.
minePendingTransactions(t, pending) ==
    IF pending = <<>>
    THEN /\ pc' = [pc EXCEPT ![t] = "idle"]
         /\ chainMutex' = NoThread
         /\ UNCHANGED << newBlock, txCount >>
    ELSE /\ txCount' = [txCount EXCEPT ![t] = TxCountOf(pending)]
         /\ newBlock' = [newBlock EXCEPT ![t] =
                Block(Len(chain), getLatestBlock.hash,
                      SubSeq(pending, 1, TxCountOf(pending)), difficulty, now)]
         /\ pc' = [pc EXCEPT ![t] = "mineBlock"]
         /\ chainMutex' = t

\* A threshold test with > in place of >=.
AutoMine_strict(pending) == Len(pending) > ToSizeT(maxTransactionsPerBlock)

\* A threshold test that always passes.
AutoMine_always(pending) == TRUE

\* Whether addTransaction runs the mining pass on a pool.
AutoMine(pending) == Len(pending) >= ToSizeT(maxTransactionsPerBlock)

\* An addTransaction that does not wait for the mutex.
addTransaction_unlocked(t) ==
    /\ ~aborted
    /\ pc[t] = "addTransaction"
    /\ pendingTransactions' = Append(pendingTransactions, transaction[t])
    /\ submitted' = Append(submitted, transaction[t])
    /\ transaction' = [transaction EXCEPT ![t] = NoTx]
    /\ IF AutoMine(pendingTransactions')
       THEN minePendingTransactions(t, pendingTransactions')
       ELSE /\ pc' = [pc EXCEPT ![t] = "idle"]
            /\ chainMutex' = NoThread
            /\ UNCHANGED << newBlock, txCount >>
    /\ UNCHANGED << difficulty, maxTransactionsPerBlock, chain, now, aborted,
                    mineCalls >>

\* An addTransaction that, at the threshold, calls the locking wrapper
\* minePendingTransactionsPublic while it holds the mutex.
addTransaction_callsPublic(t) ==
    /\ ~aborted
    /\ pc[t] = "addTransaction"
    /\ chainMutex = NoThread
    /\ pendingTransactions' = Append(pendingTransactions, transaction[t])
    /\ submitted' = Append(submitted, transaction[t])
    /\ transaction' = [transaction EXCEPT ![t] = NoTx]
    /\ IF AutoMine(pendingTransactions')
       THEN /\ pc' = [pc EXCEPT ![t] = "minePendingTransactionsPublic"]
            /\ chainMutex' = t
       ELSE /\ pc' = [pc EXCEPT ![t] = "idle"]
            /\ chainMutex' = NoThread
    /\ UNCHANGED << difficulty, maxTransactionsPerBlock, chain, now, aborted,
                    mineCalls, newBlock, txCount >>

\* An addTransaction that turns a transaction away when the pool has already
\* reached maxTransactionsPerBlock.
addTransaction_rejectsWhenFull(t) ==
    /\ ~aborted
    /\ pc[t] = "addTransaction"
    /\ chainMutex = NoThread
    /\ submitted' = Append(submitted, transaction[t])
    /\ transaction' = [transaction EXCEPT ![t] = NoTx]
    /\ IF AutoMine(pendingTransactions)
       THEN /\ pc' = [pc EXCEPT ![t] = "idle"]
            /\ chainMutex' = NoThread
            /\ UNCHANGED << pendingTransactions, newBlock, txCount >>
       ELSE /\ pendingTransactions' = Append(pendingTransactions, transaction[t])
            /\ IF AutoMine(pendingTransactions')
               THEN minePendingTransactions(t, pendingTransactions')
               ELSE /\ pc' = [pc EXCEPT ![t] = "idle"]
                    /\ chainMutex' = NoThread
                    /\ UNCHANGED << newBlock, txCount >>
    /\ UNCHANGED << difficulty, maxTransactionsPerBlock, chain, now, aborted,
                    mineCalls >>

\* Blockchain::addTransaction from the lock to the mining pass or the return.
addTransaction(t) ==
    /\ ~aborted
    /\ pc[t] = "addTransaction"
    /\ chainMutex = NoThread
    /\ pendingTransactions' = Append(pendingTransactions, transaction[t])
    /\ submitted' = Append(submitted, transaction[t])
    /\ transaction' = [transaction EXCEPT ![t] = NoTx]
    /\ IF AutoMine(pendingTransactions')
       THEN minePendingTransactions(t, pendingTransactions')
       ELSE /\ pc' = [pc EXCEPT ![t] = "idle"]
            /\ chainMutex' = NoThread
            /\ UNCHANGED << newBlock, txCount >>
    /\ UNCHANGED << difficulty, maxTransactionsPerBlock, chain, now, aborted,
                    mineCalls >>

\* A minePendingTransactionsPublic that mines only a pool that has reached
\* maxTransactionsPerBlock, as addTransaction does.
minePendingTransactionsPublic_atThreshold(t) ==
    /\ ~aborted
    /\ pc[t] = "minePendingTransactionsPublic"
    /\ chainMutex = NoThread
    /\ IF AutoMine(pendingTransactions)
       THEN minePendingTransactions(t, pendingTransactions)
       ELSE /\ pc' = [pc EXCEPT ![t] = "idle"]
            /\ chainMutex' = NoThread
            /\ UNCHANGED << newBlock, txCount >>
    /\ UNCHANGED << difficulty, maxTransactionsPerBlock, chain, pendingTransactions,
                    transaction, now, aborted, submitted, mineCalls >>

\* Blockchain::minePendingTransactionsPublic from the lock to the mining pass
\* or the return.
minePendingTransactionsPublic(t) ==
    /\ ~aborted
    /\ pc[t] = "minePendingTransactionsPublic"
    /\ chainMutex = NoThread
    /\ minePendingTransactions(t, pendingTransactions)
    /\ UNCHANGED << difficulty, maxTransactionsPerBlock, chain, pendingTransactions,
                    transaction, now, aborted, submitted, mineCalls >>

\* A push that is skipped when the chain does not validate.
pushBlock_validOnly(t) ==
    /\ ~aborted
    /\ pc[t] = "pushBlock"
    /\ chain' = IF \A i \in 2..Len(chain) :
                     isValid(chain[i]) /\ chain[i].previousHash = chain[i - 1].hash
                THEN PushBack(chain, newBlock[t])
                ELSE chain
    /\ pc' = [pc EXCEPT ![t] = "erasePending"]
    /\ UNCHANGED << difficulty, maxTransactionsPerBlock, pendingTransactions,
                    chainMutex, transaction, newBlock, txCount, now, aborted,
                    submitted, mineCalls >>

\* minePendingTransactions: chain.push_back(newBlock).
pushBlock(t) ==
    /\ ~aborted
    /\ pc[t] = "pushBlock"
    /\ chain' = PushBack(chain, newBlock[t])
    /\ pc' = [pc EXCEPT ![t] = "erasePending"]
    /\ UNCHANGED << difficulty, maxTransactionsPerBlock, pendingTransactions,
                    chainMutex, transaction, newBlock, txCount, now, aborted,
                    submitted, mineCalls >>

\* An erase that stops one short: erase(begin, begin + n - 1).
EraseFront_short(pending, n) == SubSeq(pending, IF n > 0 THEN n ELSE 1, Len(pending))

\* An erase of the first element alone: erase(begin).
EraseFront_first(pending, n) == SubSeq(pending, 2, Len(pending))

\* What pendingTransactions.erase(begin, begin + n) leaves of a pool.
EraseFront(pending, n) == SubSeq(pending, n + 1, Len(pending))

\* An erase that clears the whole pool.
erasePending_clear(t) ==
    /\ ~aborted
    /\ pc[t] = "erasePending"
    /\ pendingTransactions' = <<>>
    /\ newBlock' = [newBlock EXCEPT ![t] = NoBlock]
    /\ txCount' = [txCount EXCEPT ![t] = 0]
    /\ chainMutex' = NoThread
    /\ pc' = [pc EXCEPT ![t] = "idle"]
    /\ UNCHANGED << difficulty, maxTransactionsPerBlock, chain, transaction, now,
                    aborted, submitted, mineCalls >>

\* minePendingTransactions: the erase of the mined transactions, the return
\* and the release of the mutex by the caller's lock_guard.
erasePending(t) ==
    /\ ~aborted
    /\ pc[t] = "erasePending"
    /\ pendingTransactions' = EraseFront(pendingTransactions, txCount[t])
    /\ newBlock' = [newBlock EXCEPT ![t] = NoBlock]
    /\ txCount' = [txCount EXCEPT ![t] = 0]
    /\ chainMutex' = NoThread
    /\ pc' = [pc EXCEPT ![t] = "idle"]
    /\ UNCHANGED << difficulty, maxTransactionsPerBlock, chain, transaction, now,
                    aborted, submitted, mineCalls >>

\* The wall clock moves on by a second.
Tick ==
    /\ ~aborted
    /\ now < MaxTime
    /\ now' = now + 1
    /\ UNCHANGED << difficulty, maxTransactionsPerBlock, chain, pendingTransactions,
                    chainMutex, pc, transaction, newBlock, txCount, aborted,
                    submitted, mineCalls >>

Next ==
    \/ createGenesisBlock
    \/ BlockchainCtor
    \/ \E p \in Procs : mineBlock(p)
    \/ \E t \in Threads : CallAddTransaction(t)
    \/ \E t \in Threads : CallMinePublic(t)
    \/ \E t \in Threads : addTransaction(t)
    \/ \E t \in Threads : minePendingTransactionsPublic(t)
    \/ \E t \in Threads : pushBlock(t)
    \/ \E t \in Threads : erasePending(t)
    \/ Tick

Spec == Init /\ [][Next]_vars

\* The construction of a ledger alone: Blockchain::Blockchain from its member
\* initialisers to its return, with the clock running.
ConstructionNext ==
    \/ createGenesisBlock
    \/ mineBlock(Main)
    \/ BlockchainCtor
    \/ Tick

\* The constructing thread keeps running: it goes on with the loop of
\* mineBlock while it is in it, and on to the push when it is out of it.
ConstructionFairSpec ==
    /\ Init
    /\ [][ConstructionNext]_vars
    /\ WF_vars(createGenesisBlock)
    /\ WF_vars(mineBlock(Main))
    /\ WF_vars(BlockchainCtor)

\* The user each request thread acts for: "a" for t1, "b" for t2.
SenderOf(t) == IF t = "t1" THEN <<10>> ELSE <<11>>

\* The number of posts of thread t's user that addTransaction has taken so far.
PostsBy(t) ==
    Cardinality({i \in 1..Len(submitted) : submitted[i].sender = SenderOf(t)})

\* The POST handler for thread t's user: the k-th post of a user carries the
\* text k (counted from 0), so that every record names its thread and its
\* place in that thread's calls.
CallCreatePost(t) ==
    /\ ~aborted
    /\ Constructed
    /\ pc[t] = "idle"
    /\ SubmitCalls + mineCalls < MaxCalls
    /\ transaction' = [transaction EXCEPT ![t] =
           Transaction(SenderOf(t), POST, <<PostsBy(t)>>, now)]
    /\ pc' = [pc EXCEPT ![t] = "addTransaction"]
    /\ UNCHANGED << difficulty, maxTransactionsPerBlock, chain, pendingTransactions,
                    chainMutex, newBlock, txCount, now, aborted, submitted, mineCalls >>

\* Request threads that only create posts, each for its own user.
ConcurrentSubmitNext ==
    \/ createGenesisBlock
    \/ BlockchainCtor
    \/ \E p \in Procs : mineBlock(p)
    \/ \E t \in Threads : CallCreatePost(t)
    \/ \E t \in Threads : addTransaction(t)
    \/ \E t \in Threads : pushBlock(t)
    \/ \E t \in Threads : erasePending(t)
    \/ Tick

ConcurrentSubmitSpec == Init /\ [][ConcurrentSubmitNext]_vars

RECURSIVE SequentialSubmits(_, _, _)
\* The transaction lists of the mined blocks and the pool after addTransaction
\* has been called with each of txs in turn, by one thread, on a ledger whose
\* mined blocks hold `blocks` and whose pool is `pool`.
SequentialSubmits(txs, blocks, pool) ==
    IF txs = <<>> THEN << blocks, pool >>
    ELSE LET pushed == Append(pool, Head(txs)) IN
         IF AutoMine(pushed) /\ pushed # <<>>
         THEN SequentialSubmits(Tail(txs),
                  Append(blocks, SubSeq(pushed, 1, TxCountOf(pushed))),
                  EraseFront(pushed, TxCountOf(pushed)))
         ELSE SequentialSubmits(Tail(txs), blocks, pushed)

\* The thread that serves the mutating requests, and the thread that serves
\* GET /api, in the scenario of one writer and one reader.
Writer == "t1"

Reader == "t2"

\* The GET /api handler is entered: it will call getChainLength and then
\* getPendingTransactionCount.  It takes no lock.
CallGetApi ==
    /\ ~aborted
    /\ Constructed
    /\ pc[Reader] = "idle"
    /\ pc' = [pc EXCEPT ![Reader] = "getChainLength"]
    /\ UNCHANGED << difficulty, maxTransactionsPerBlock, chain, pendingTransactions,
                    chainMutex, transaction, newBlock, txCount, now, aborted,
                    submitted, mineCalls >>

\* Blockchain::getChainLength: returns chain.size() without taking chainMutex.
getChainLength ==
    /\ ~aborted
    /\ pc[Reader] = "getChainLength"
    /\ pc' = [pc EXCEPT ![Reader] = "getPendingTransactionCount"]
    /\ UNCHANGED << difficulty, maxTransactionsPerBlock, chain, pendingTransactions,
                    chainMutex, transaction, newBlock, txCount, now, aborted,
                    submitted, mineCalls >>

\* Blockchain::getPendingTransactionCount: returns pendingTransactions.size()
\* without taking chainMutex; the handler then returns.
getPendingTransactionCount ==
    /\ ~aborted
    /\ pc[Reader] = "getPendingTransactionCount"
    /\ pc' = [pc EXCEPT ![Reader] = "idle"]
    /\ UNCHANGED << difficulty, maxTransactionsPerBlock, chain, pendingTransactions,
                    chainMutex, transaction, newBlock, txCount, now, aborted,
                    submitted, mineCalls >>

\* One thread submitting and mining, one thread reading.
ReaderNext ==
    \/ createGenesisBlock
    \/ BlockchainCtor
    \/ \E p \in {Main, Writer} : mineBlock(p)
    \/ CallAddTransaction(Writer)
    \/ CallMinePublic(Writer)
    \/ addTransaction(Writer)
    \/ minePendingTransactionsPublic(Writer)
    \/ pushBlock(Writer)
    \/ erasePending(Writer)
    \/ CallGetApi
    \/ getChainLength
    \/ getPendingTransactionCount
    \/ Tick

ReaderSpec == Init /\ [][ReaderNext]_vars

\* Every block stores the hash of its fields and the hash of the block before
\* it: nothing has been written into the chain from outside the class.
Intact ==
    /\ \A i \in 1..Len(chain) : chain[i].hash = calculateHash(chain[i])
    /\ \A i \in 2..Len(chain) : chain[i].previousHash = chain[i - 1].hash

\* The bytes a tampering writes into a payload.
TamperBytes == {0, 13}

\* The strings a tampering writes over a stored hash h: all '0' (which meets
\* every target) and h with its last character changed.
TamperHashes(h) ==
    {Zeros(HashLen), [h EXCEPT ![Len(h)] = (h[Len(h)] + 1) % 16]} \ {h}

\* One byte of the payload of a transaction of a block of the chain is
\* overwritten in place (Block::transactions, Transaction::data), the block's
\* hash and nonce staying as they are.  The class has no operation that does
\* this; it stands for a write into the stored chain from outside.
TamperPayload ==
    /\ ~aborted
    /\ Constructed
    /\ chainMutex = NoThread
    /\ Intact
    /\ \E i \in 1..Len(chain) :
         \E j \in 1..Len(chain[i].transactions) :
           \E k \in 1..Len(chain[i].transactions[j].data) :
             \E c \in TamperBytes \ {chain[i].transactions[j].data[k]} :
               chain' = [chain EXCEPT ![i].transactions[j].data[k] = c]
    /\ UNCHANGED << difficulty, maxTransactionsPerBlock, pendingTransactions,
                    chainMutex, pc, transaction, newBlock, txCount, now, aborted,
                    submitted, mineCalls >>

\* The stored hash of a block of the chain is overwritten with another hex
\* string of the same length (Block::hash).
TamperHash ==
    /\ ~aborted
    /\ Constructed
    /\ chainMutex = NoThread
    /\ Intact
    /\ \E i \in 1..Len(chain) :
         \E h \in TamperHashes(chain[i].hash) :
           chain' = [chain EXCEPT ![i].hash = h]
    /\ UNCHANGED << difficulty, maxTransactionsPerBlock, pendingTransactions,
                    chainMutex, pc, transaction, newBlock, txCount, now, aborted,
                    submitted, mineCalls >>

\* The stored previousHash of a block after the genesis block is overwritten
\* with another string (Block::previousHash).
TamperPreviousHash ==
    /\ ~aborted
    /\ Constructed
    /\ chainMutex = NoThread
    /\ Intact
    /\ \E i \in 2..Len(chain) :
         \E h \in (TamperHashes(chain[i].previousHash) \cup {<<0>>})
                     \ {chain[i].previousHash} :
           chain' = [chain EXCEPT ![i].previousHash = h]
    /\ UNCHANGED << difficulty, maxTransactionsPerBlock, pendingTransactions,
                    chainMutex, pc, transaction, newBlock, txCount, now, aborted,
                    submitted, mineCalls >>

\* One thread submitting and mining on a ledger whose stored chain is written
\* into once from outside, between two calls, all within one second.
TamperNext ==
    \/ createGenesisBlock
    \/ BlockchainCtor
    \/ \E p \in {Main, Writer} : mineBlock(p)
    \/ CallAddTransaction(Writer)
    \/ CallMinePublic(Writer)
    \/ addTransaction(Writer)
    \/ minePendingTransactionsPublic(Writer)
    \/ pushBlock(Writer)
    \/ erasePending(Writer)
    \/ TamperPayload
    \/ TamperHash
    \/ TamperPreviousHash

TamperSpec == Init /\ [][TamperNext]_vars

RECURSIVE MineFrom(_, _)
\* The do-while loop of Block::mineBlock run to its return on block b from
\* the nonce n: the block at the first nonce above n whose hash meets the
\* target, or NoBlock when the nonce would overflow first.
MineFrom(b, n) ==
    IF Overflows(n) THEN NoBlock
    ELSE LET c == MineIteration(b, n + 1) IN
         IF MeetsTarget(c) THEN c ELSE MineFrom(b, n + 1)

\* Block::mineBlock on block b with its nonce set back to 0, as the
\* constructor leaves it.
Remine(b) == MineFrom(b, 0)

\* One byte of the payload of a transaction of a block that has a successor
\* is overwritten, and the block is then mined again, so that it stores the
\* hash of its new contents and that hash meets the target.  As the other
\* tamperings, it stands for a write into the stored chain from outside.
TamperAndRemine ==
    /\ ~aborted
    /\ Constructed
    /\ chainMutex = NoThread
    /\ Intact
    /\ \E i \in 1..(Len(chain) - 1) :
         \E j \in 1..Len(chain[i].transactions) :
           \E k \in 1..Len(chain[i].transactions[j].data) :
             \E c \in TamperBytes \ {chain[i].transactions[j].data[k]} :
               LET b == Remine([chain[i] EXCEPT !.transactions[j].data[k] = c]) IN
               /\ b # NoBlock
               /\ chain' = [chain EXCEPT ![i] = b]
    /\ UNCHANGED << difficulty, maxTransactionsPerBlock, pendingTransactions,
                    chainMutex, pc, transaction, newBlock, txCount, now, aborted,
                    submitted, mineCalls >>

\* One thread submitting and mining on a ledger in which a block is rewritten
\* and mined again from outside, between two calls, all within one second.
RemineNext ==
    \/ createGenesisBlock
    \/ BlockchainCtor
    \/ \E p \in {Main, Writer} : mineBlock(p)
    \/ CallAddTransaction(Writer)
    \/ CallMinePublic(Writer)
    \/ addTransaction(Writer)
    \/ minePendingTransactionsPublic(Writer)
    \/ pushBlock(Writer)
    \/ erasePending(Writer)
    \/ TamperAndRemine

RemineSpec == Init /\ [][RemineNext]_vars

\* The timestamps an outside write stores in a block: any second from before
\* the ledger was built to after the present.
Stamps == 0..(MaxTime + 1)

\* The timestamp of the last block of the chain is overwritten and the block
\* is then mined again, so that it stores the hash of its new fields and
\* that hash meets the target.  As the other tamperings, it stands for a
\* write into the stored chain from outside.
RestampAndRemine ==
    /\ ~aborted
    /\ Constructed
    /\ chainMutex = NoThread
    /\ Intact
    /\ Len(chain) >= 2
    /\ \E ts \in Stamps \ {chain[Len(chain)].timestamp} :
         LET b == Remine([chain[Len(chain)] EXCEPT !.timestamp = ts]) IN
         /\ b # NoBlock
         /\ chain' = [chain EXCEPT ![Len(chain)] = b]
    /\ UNCHANGED << difficulty, maxTransactionsPerBlock, pendingTransactions,
                    chainMutex, pc, transaction, newBlock, txCount, now, aborted,
                    submitted, mineCalls >>

\* One thread submitting and mining on a ledger whose last block is given
\* another timestamp and mined again from outside, between two calls.
RestampNext ==
    \/ createGenesisBlock
    \/ BlockchainCtor
    \/ \E p \in {Main, Writer} : mineBlock(p)
    \/ CallAddTransaction(Writer)
    \/ CallMinePublic(Writer)
    \/ addTransaction(Writer)
    \/ minePendingTransactionsPublic(Writer)
    \/ pushBlock(Writer)
    \/ erasePending(Writer)
    \/ RestampAndRemine

RestampSpec == Init /\ [][RestampNext]_vars

\* The const member functions a reading thread calls on the ledger.
Getters == {"isChainValid", "getChainLength", "getLatestBlock", "getChainInfo"}

\* The reading thread enters one of the getters; getChainLength is followed
\* by getPendingTransactionCount, as in the GET /api handler.
CallGetter ==
    /\ ~aborted
    /\ Constructed
    /\ pc[Reader] = "idle"
    /\ \E g \in Getters : pc' = [pc EXCEPT ![Reader] = g]
    /\ UNCHANGED << difficulty, maxTransactionsPerBlock, chain, pendingTransactions,
                    chainMutex, transaction, newBlock, txCount, now, aborted,
                    submitted, mineCalls >>

\* An isChainValid call that also empties the pool.
isChainValidCalled_draining ==
    /\ ~aborted
    /\ pc[Reader] = "isChainValid"
    /\ pendingTransactions' = <<>>
    /\ pc' = [pc EXCEPT ![Reader] = "idle"]
    /\ UNCHANGED << difficulty, maxTransactionsPerBlock, chain, chainMutex,
                    transaction, newBlock, txCount, now, aborted, submitted,
                    mineCalls >>

\* Blockchain::isChainValid called by the reading thread: it walks the chain
\* and returns; it is const and takes no lock.
isChainValidCalled ==
    /\ ~aborted
    /\ pc[Reader] = "isChainValid"
    /\ pc' = [pc EXCEPT ![Reader] = "idle"]
    /\ UNCHANGED << difficulty, maxTransactionsPerBlock, chain, pendingTransactions,
                    chainMutex, transaction, newBlock, txCount, now, aborted,
                    submitted, mineCalls >>

\* Blockchain::getLatestBlock called by the reading thread: returns
\* chain.back().
getLatestBlockCalled ==
    /\ ~aborted
    /\ pc[Reader] = "getLatestBlock"
    /\ Len(chain) >= 1
    /\ pc' = [pc EXCEPT ![Reader] = "idle"]
    /\ UNCHANGED << difficulty, maxTransactionsPerBlock, chain, pendingTransactions,
                    chainMutex, transaction, newBlock, txCount, now, aborted,
                    submitted, mineCalls >>

\* Blockchain::getChainInfo: writes chain.size(), pendingTransactions.size()
\* and difficulty to a stringstream and then calls isChainValid.
getChainInfo ==
    /\ ~aborted
    /\ pc[Reader] = "getChainInfo"
    /\ pc' = [pc EXCEPT ![Reader] = "isChainValid"]
    /\ UNCHANGED << difficulty, maxTransactionsPerBlock, chain, pendingTransactions,
                    chainMutex, transaction, newBlock, txCount, now, aborted,
                    submitted, mineCalls >>

\* One thread submitting and mining, one thread calling the getters, all
\* within one second.
GetterNext ==
    \/ createGenesisBlock
    \/ BlockchainCtor
    \/ \E p \in {Main, Writer} : mineBlock(p)
    \/ CallAddTransaction(Writer)
    \/ CallMinePublic(Writer)
    \/ addTransaction(Writer)
    \/ minePendingTransactionsPublic(Writer)
    \/ pushBlock(Writer)
    \/ erasePending(Writer)
    \/ CallGetter
    \/ isChainValidCalled
    \/ getChainLength
    \/ getPendingTransactionCount
    \/ getLatestBlockCalled
    \/ getChainInfo

GetterSpec == Init /\ [][GetterNext]_vars

\* The byte string Block::calculateHash feeds to sha256: index, previousHash,
\* timestamp, the serialized transactions and nonce, with nothing between.
HashInput(b) ==
    Dec(b.index) \o b.previousHash \o Dec(b.timestamp)
        \o transactionsToString(b.transactions) \o Dec(b.nonce)

\* (sender, type, data) triples whose strings end or begin with a digit: the
\* users "a" and "a1", a LIKE with the data "1" and one with no data.
DigitInputs == { <<<<10>>, LIKE, <<1>>>>, <<<<10, 1>>, LIKE, <<>>>> }

\* A caller builds a Transaction from one of DigitInputs and calls
\* addTransaction with it.
CallAddDigits(t) ==
    /\ ~aborted
    /\ Constructed
    /\ pc[t] = "idle"
    /\ SubmitCalls + mineCalls < MaxCalls
    /\ \E in \in DigitInputs :
         transaction' = [transaction EXCEPT ![t] = Transaction(in[1], in[2], in[3], now)]
    /\ pc' = [pc EXCEPT ![t] = "addTransaction"]
    /\ UNCHANGED << difficulty, maxTransactionsPerBlock, chain, pendingTransactions,
                    chainMutex, newBlock, txCount, now, aborted, submitted, mineCalls >>

\* Request threads that submit transactions built from DigitInputs.
DigitsNext ==
    \/ createGenesisBlock
    \/ BlockchainCtor
    \/ \E p \in Procs : mineBlock(p)
    \/ \E t \in Threads : CallAddDigits(t)
    \/ \E t \in Threads : addTransaction(t)
    \/ \E t \in Threads : pushBlock(t)
    \/ \E t \in Threads : erasePending(t)

DigitsSpec == Init /\ [][DigitsNext]_vars

\* The calls of the request threads within one second.
LockNext ==
    \/ createGenesisBlock
    \/ BlockchainCtor
    \/ \E p \in Procs : mineBlock(p)
    \/ \E t \in Threads : CallAddTransaction(t)
    \/ \E t \in Threads : CallMinePublic(t)
    \/ \E t \in Threads : addTransaction(t)
    \/ \E t \in Threads : minePendingTransactionsPublic(t)
    \/ \E t \in Threads : pushBlock(t)
    \/ \E t \in Threads : erasePending(t)

SameSecondSpec == Init /\ [][LockNext]_vars

\* Every thread keeps running, and the mutex is fair: a thread that waits for
\* it while it is free again and again gets it.
LockFairSpec ==
    /\ SameSecondSpec
    /\ WF_vars(createGenesisBlock)
    /\ WF_vars(BlockchainCtor)
    /\ \A p \in Procs : WF_vars(mineBlock(p))
    /\ \A t \in Threads :
          /\ SF_vars(addTransaction(t))
          /\ SF_vars(minePendingTransactionsPublic(t))
          /\ WF_vars(pushBlock(t))
          /\ WF_vars(erasePending(t))

\* ------------------------------------------------------------ properties

\* No caller is inside addTransaction or minePendingTransactionsPublic.
Quiescent == Constructed /\ chainMutex = NoThread

RECURSIVE TxsOf(_)
\* The transactions of a sequence of blocks, in chain order.
TxsOf(blocks) ==
    IF blocks = <<>> THEN <<>>
    ELSE Head(blocks).transactions \o TxsOf(Tail(blocks))

\* A string begins with d '0' characters.
HasLeadingZeros(h, d) == d <= Len(h) /\ \A i \in 1..d : h[i] = 0

\* A validation loop that starts one block too late.
isChainValid_fromSecond ==
    \A i \in 3..Len(chain) :
        /\ isValid(chain[i])
        /\ chain[i].previousHash = chain[i - 1].hash

\* A validation that checks every block on its own and not the links.
isChainValid_blocksOnly == \A i \in 2..Len(chain) : isValid(chain[i])

\* A validation that re-verifies the genesis block as well.
isChainValid_withGenesis ==
    /\ \A i \in 1..Len(chain) : isValid(chain[i])
    /\ \A i \in 2..Len(chain) : chain[i].previousHash = chain[i - 1].hash

\* Blockchain::isChainValid
isChainValid ==
    \A i \in 2..Len(chain) :
        /\ isValid(chain[i])
        /\ chain[i].previousHash = chain[i - 1].hash

RECURSIVE FailingIndex_linksOnly(_, _)
\* A validation loop that only compares the links.
FailingIndex_linksOnly(c, i) ==
    IF i >= Len(c) THEN -1
    ELSE IF c[i + 1].previousHash # c[i].hash THEN i
    ELSE FailingIndex_linksOnly(c, i + 1)

RECURSIVE FailingIndex_genesisToo(_, _)
\* A validation loop that first re-verifies the genesis block.
FailingIndex_genesisToo(c, i) ==
    IF i = 1 /\ ~isValid(c[1]) THEN 0
    ELSE IF i >= Len(c) THEN -1
    ELSE IF ~isValid(c[i + 1]) \/ c[i + 1].previousHash # c[i].hash THEN i
    ELSE FailingIndex_genesisToo(c, i + 1)

RECURSIVE FailingIndex(_, _)
\* The loop of Blockchain::isChainValid over the chain c from the index i
\* (counted from 0, as in the source): the index in its "Block i has invalid
\* ..." message, the first at which a test fails, or -1 when it returns true.
FailingIndex(c, i) ==
    IF i >= Len(c) THEN -1
    ELSE IF ~isValid(c[i + 1]) \/ c[i + 1].previousHash # c[i].hash THEN i
    ELSE FailingIndex(c, i + 1)

\* C1: every block after the genesis block has previous_hash equal to the
\* stored hash of the block before it, in every state the calls reach.
C1_ChainLinked ==
    [] ( \A i \in 2..Len(chain) : chain[i].previousHash = chain[i - 1].hash )

\* Three blocks with three different hashes, no call in progress.
C1_Witness ==
    /\ Quiescent
    /\ Len(chain) = 3
    /\ chain[1].hash # chain[2].hash
    /\ chain[2].previousHash = chain[1].hash
    /\ chain[3].previousHash = chain[2].hash

\* C2: whenever no call is in progress, the transactions of the blocks after
\* the genesis block, in chain order, followed by the pending pool, are
\* exactly the submitted transactions in the order their addTransaction calls
\* took the mutex; and a block that has been appended but whose transactions
\* are not yet erased holds a prefix of the pool.
C2_NoLossNoDuplication ==
    [] ( /\ Quiescent =>
               TxsOf(Tail(chain)) \o pendingTransactions = submitted
         /\ \A t \in Threads :
               pc[t] = "erasePending" =>
                   /\ chain[Len(chain)].transactions =
                          SubSeq(pendingTransactions, 1, txCount[t])
                   /\ TxsOf(Tail(chain))
                          \o SubSeq(pendingTransactions, txCount[t] + 1,
                                    Len(pendingTransactions)) = submitted )

\* A block mined from two of three different submissions, the third pending.
C2_Witness ==
    /\ Quiescent
    /\ Len(chain) = 2
    /\ Len(chain[2].transactions) = 2
    /\ Len(pendingTransactions) = 1
    /\ Len(submitted) = 3
    /\ submitted[1] # submitted[2]
    /\ submitted[2] # submitted[3]

\* C3: every block of the chain, genesis included, stores the hash that a
\* fresh computation over its fields gives, and that hash begins with
\* `difficulty` '0' characters.
C3_HashesFreshAndMined ==
    [] ( \A i \in 1..Len(chain) :
           /\ chain[i].hash = calculateHash(chain[i])
           /\ HasLeadingZeros(chain[i].hash, difficulty) )

\* A chain of three blocks mined at a difficulty above zero.
C3_Witness ==
    /\ difficulty >= 1
    /\ Len(chain) = 3
    /\ \E i \in 1..3 : chain[i].nonce > 1

\* C4: isChainValid() is true in every state from the return of the
\* constructor on, the state with the genesis block alone included.
C4_ChainValid == [] ( Constructed => isChainValid )

\* A valid chain of three blocks at a difficulty above zero.
C4_Witness ==
    /\ Quiescent
    /\ difficulty >= 1
    /\ Len(chain) = 3
    /\ isChainValid

\* C5: from the return of the constructor on the chain is never empty and
\* its first block has index 0 and previous_hash "0"; no step shortens the
\* chain or changes a block that is in it.
C5_AppendOnly ==
    [][ /\ Constructed' =>
             /\ Len(chain') >= 1
             /\ chain'[1].index = 0
             /\ chain'[1].previousHash = <<0>>
        /\ Len(chain') >= Len(chain)
        /\ \A i \in 1..Len(chain) : chain'[i] = chain[i] ]_vars

\* A second block has been appended after the first mined one.
C5_Witness ==
    /\ Len(chain) = 3
    /\ chain[1].index = 0
    /\ chain[3].transactions # <<>>

\* A caller is inside the mining pass (between its entry and its return).
InPass(t) == pc[t] \in {"mineBlock", "pushBlock", "erasePending"}

C8_MineNowForcesPass ==
    [][ \A t \in Threads :
          LET k == Len(pendingTransactions)
              below == 1 <= k /\ k < maxTransactionsPerBlock
          IN  /\ ( /\ pc[t] = "minePendingTransactionsPublic"
                   /\ pc'[t] # "minePendingTransactionsPublic"
                   /\ below ) =>
                       /\ pc'[t] = "mineBlock"
                       /\ newBlock'[t].index = Len(chain)
                       /\ newBlock'[t].transactions = pendingTransactions
                       /\ chain' = chain
              /\ (pc[t] = "erasePending" /\ pc'[t] = "idle" /\ below) =>
                       /\ Len(chain') = newBlock[t].index + 1
                       /\ pendingTransactions' = <<>> ]_vars

\* Scenario C has run: one submission stayed in the pool, and a
\* minePendingTransactionsPublic call mined it alone into a block.
C8_Witness ==
    /\ maxTransactionsPerBlock = 2
    /\ Quiescent
    /\ mineCalls = 1
    /\ \A t \in Threads : pc[t] = "idle"
    /\ Len(submitted) = 1
    /\ Len(chain) = 2
    /\ chain[2].transactions = submitted
    /\ pendingTransactions = <<>>

\* C9: minePendingTransactionsPublic on an empty pool returns at once: the
\* chain and the pool are unchanged and no block is built or mined.
C9_EmptyPoolNoOp ==
    [][ \A t \in Threads :
          ( /\ pc[t] = "minePendingTransactionsPublic"
            /\ pc'[t] # "minePendingTransactionsPublic"
            /\ pendingTransactions = <<>> ) =>
                /\ chain' = chain
                /\ pendingTransactions' = <<>>
                /\ newBlock' = newBlock
                /\ pc'[t] = "idle"
                /\ chainMutex' = NoThread ]_vars

\* A minePendingTransactionsPublic call on the empty pool of a fresh ledger
\* has returned.
C9_Witness ==
    /\ Quiescent
    /\ mineCalls = 1
    /\ \A t \in Threads : pc[t] = "idle"
    /\ submitted = <<>>
    /\ Len(chain) = 1

\* C10: every call of mineBlock returns, stated for the difficulty
\* HashLen + 1 (one more than a digest has characters) and counting the end
\* of the process as a return: a caller that is in mineBlock is eventually
\* out of it.
C10_MineBlockTerminates ==
    \A p \in Procs :
        [](( pc[p] = "mineBlock" /\ difficulty = HashLen + 1 )
              => <>( pc[p] # "mineBlock" \/ aborted ))

\* C11: in the state in which a caller's mineBlock has just returned, at any
\* difficulty, the hash stored in the mined block begins with `difficulty`
\* '0' characters and is the hash recomputed from the block's fields with the
\* final nonce, so isValid() is true of it.
C11_MinedBlockValid ==
    \A p \in Procs :
        pc[p] = AfterMineBlock(p) =>
            /\ newBlock[p].difficulty = difficulty
            /\ HasLeadingZeros(newBlock[p].hash, difficulty)
            /\ newBlock[p].hash = calculateHash(newBlock[p])
            /\ isValid(newBlock[p])

\* A request thread's mineBlock has returned at difficulty 1 after more than
\* one iteration.
C11_Witness ==
    /\ difficulty = 1
    /\ \E t \in Threads :
          /\ pc[t] = "pushBlock"
          /\ newBlock[t].nonce > 1
          /\ newBlock[t].transactions # <<>>

\* A caller has called addTransaction or minePendingTransactionsPublic and has
\* not yet got the mutex.
AtLock(t) == pc[t] \in {"addTransaction", "minePendingTransactionsPublic"}

\* C12: at most one thread is inside addTransaction or
\* minePendingTransactionsPublic past the lock; a thread holds the mutex
\* exactly from its entry into the mining pass (the append to the pool
\* included) to the end of the erase; and while a thread is in the pass no
\* other thread's call gets past the lock, and the chain, the pool and the
\* order of submissions change only by that thread's own steps.
C12_MutualExclusion ==
    /\ [] ( /\ Cardinality({t \in Threads : InPass(t)}) <= 1
            /\ \A t \in Threads : InPass(t) <=> chainMutex = t )
    /\ [][ \A t \in Threads :
             InPass(t) =>
                 /\ \A u \in Threads \ {t} : AtLock(u) => pc'[u] = pc[u]
                 /\ pc'[t] = pc[t] =>
                       /\ chain' = chain
                       /\ pendingTransactions' = pendingTransactions
                       /\ submitted' = submitted ]_vars

\* One thread has appended its block and not yet erased the pool while the
\* other has called addTransaction and waits for the mutex.
C12_Witness ==
    \E t \in Threads : \E u \in Threads \ {t} :
        /\ pc[t] = "erasePending"
        /\ pc[u] = "addTransaction"
        /\ chainMutex = t

\* The transactions of the ledger: those of the mined blocks in chain order,
\* then the pool.
Ledger == TxsOf(Tail(chain)) \o pendingTransactions

\* The records of thread t's user in a sequence, in its order.
RecordsOf(t, txs) == SelectSeq(txs, LAMBDA tx : tx.sender = SenderOf(t))

\* C13: when concurrent addTransaction calls of two threads have all
\* returned, the ledger holds every submitted transaction exactly once, the
\* records of each thread in the order the thread submitted them (its k-th
\* post is the k-th of its records), and the mined blocks and the pool are
\* those that one thread calling addTransaction with the same records in
\* ledger order produces.
C13_Linearizable ==
    ( Constructed /\ \A t \in Threads : pc[t] = "idle" ) =>
        /\ Len(Ledger) = Len(submitted)
        /\ \A t \in Threads :
              /\ Len(RecordsOf(t, Ledger)) = PostsBy(t)
              /\ \A k \in 1..PostsBy(t) : RecordsOf(t, Ledger)[k].data = <<k - 1>>
        /\ SequentialSubmits(Ledger, <<>>, <<>>) =
              << [i \in 1..(Len(chain) - 1) |-> chain[i + 1].transactions],
                 pendingTransactions >>

\* Three posts of two threads have been taken, one of them built before and
\* taken after a post of the other thread, and at least one block was mined.
C13_Witness ==
    /\ Constructed
    /\ \A t \in Threads : pc[t] = "idle"
    /\ Len(submitted) = 3
    /\ \A t \in Threads : PostsBy(t) >= 1
    /\ Len(chain) >= 2
    /\ \E i \in 1..3 : \E j \in 1..3 :
          i < j /\ submitted[i].timestamp > submitted[j].timestamp

\* The reader is about to run one of the getters.
AtGetter == pc[Reader] \in {"getChainLength", "getPendingTransactionCount"}

\* C14: no getter runs while another thread is inside a mining pass: a step
\* in which getChainLength or getPendingTransactionCount returns is never
\* taken from a state in which the writer is between its entry into the
\* pass and the end of the erase.
C14_ReadsUnderLock ==
    [][ ( AtGetter /\ pc'[Reader] # pc[Reader] ) => ~InPass(Writer) ]_vars

\* C15: a step that changes a byte of the payload of a transaction of a
\* mined block of the chain, leaving the block's stored hash and nonce as
\* they are, makes the hash recomputed from the block differ from the stored
\* one, so isValid() is false of the block and, when the block is not the
\* genesis block, isChainValid() is false.
C15_PayloadTamperDetected ==
    [][ \A i \in 1..Len(chain) :
          ( /\ Len(chain') = Len(chain)
            /\ isValid(chain[i])
            /\ chain'[i].transactions # chain[i].transactions
            /\ chain'[i].hash = chain[i].hash
            /\ chain'[i].nonce = chain[i].nonce ) =>
                /\ calculateHash(chain'[i]) # chain'[i].hash
                /\ ~isValid(chain'[i])
                /\ i >= 2 => ~isChainValid' ]_vars

\* A payload byte of a block after the genesis block has been changed at
\* difficulty 1: the ledger no longer holds what was submitted, while the
\* stored hash of that block still begins with a '0'.
C15_Witness ==
    /\ Quiescent
    /\ difficulty = 1
    /\ Len(chain) >= 2
    /\ Len(Ledger) = Len(submitted)
    /\ Ledger # submitted
    /\ \E i \in 2..Len(chain) :
          MeetsTarget(chain[i]) /\ chain[i].hash # calculateHash(chain[i])

\* C16: in a chain of at least three blocks that validates, a step that
\* overwrites the stored hash of chain[1] with a different string of the
\* same length makes isChainValid() false, and the first index at which its
\* loop fails is 1.
C16_HashTamperReported ==
    [][ ( /\ Len(chain) >= 3
          /\ isChainValid
          /\ Len(chain') = Len(chain)
          /\ chain'[2].hash # chain[2].hash
          /\ Len(chain'[2].hash) = HashLen ) =>
              /\ ~isChainValid'
              /\ FailingIndex(chain', 1) = 1 ]_vars

\* The hash of chain[1] of a chain of three blocks has been overwritten at
\* difficulty 1 with a string that still begins with a '0'; chain[2] still
\* stores the old one.
C16_Witness ==
    /\ difficulty = 1
    /\ Len(chain) = 3
    /\ Ledger = submitted
    /\ chain[2].hash # calculateHash(chain[2])
    /\ MeetsTarget(chain[2])
    /\ chain[3].previousHash = calculateHash(chain[2])

\* C17: in a chain that validates, a step that changes the stored
\* previousHash of a block after the genesis block, so that it is no longer
\* the stored hash of the block before it, makes isChainValid() false.
C17_LinkTamperDetected ==
    [][ \A i \in 2..Len(chain) :
          ( /\ isChainValid
            /\ Len(chain') = Len(chain)
            /\ chain'[i].previousHash # chain[i].previousHash ) =>
                /\ chain'[i].previousHash # chain'[i - 1].hash
                /\ ~isChainValid' ]_vars

\* The previousHash of a block has been overwritten: it differs from the
\* hash of the block before it, which is itself untouched.
C17_Witness ==
    /\ Len(chain) >= 2
    /\ \E i \in 2..Len(chain) :
          /\ chain[i - 1].hash = calculateHash(chain[i - 1])
          /\ chain[i].previousHash # chain[i - 1].hash

\* C18: from a state in which isChainValid() is false, no step changes a
\* block of the chain or shortens it, isChainValid() is false after the
\* step, a mining pass still appends its block, which stores the hash stored
\* in the tip and is itself valid, and when the call has returned the ledger
\* holds as many transactions as were submitted.
C18_InvalidChainStaysUsable ==
    [][ ( Constructed /\ ~isChainValid ) =>
          /\ Len(chain') >= Len(chain)
          /\ \A i \in 1..Len(chain) : chain'[i] = chain[i]
          /\ ~isChainValid'
          /\ ( pc[Writer] = "pushBlock" /\ pc'[Writer] = "erasePending" ) =>
                /\ Len(chain') = Len(chain) + 1
                /\ chain'[Len(chain')].previousHash = chain[Len(chain)].hash
                /\ isValid(chain'[Len(chain')])
          /\ Quiescent' => Len(Ledger') = Len(submitted') ]_vars

\* The hash of chain[1] was overwritten, and a later call has appended
\* chain[2], a valid block that stores the overwritten hash; the call has
\* returned and the chain does not validate.
C18_Witness ==
    /\ Quiescent
    /\ pc[Writer] = "idle"
    /\ Len(chain) = 3
    /\ Ledger = submitted
    /\ chain[2].hash # calculateHash(chain[2])
    /\ chain[3].previousHash = chain[2].hash
    /\ isValid(chain[3])
    /\ ~isChainValid

\* Every mineBlock that is entered is left again.
MiningTerminates == \A p \in Procs : []<>(pc[p] # "mineBlock")

\* C19: no thread waits for chainMutex while it holds it; the mutex is free
\* whenever no thread is past the lock of a call; and, when every mineBlock
\* terminates and the mutex is fair, a thread that has called addTransaction
\* or minePendingTransactionsPublic is eventually back from the call.
C19_NoDeadlock ==
    /\ [] ( \A t \in Threads : AtLock(t) => chainMutex # t )
    /\ [] ( ( \A t \in Threads : ~InPass(t) ) => chainMutex = NoThread )
    /\ MiningTerminates =>
          \A t \in Threads : ( pc[t] # "idle" ) ~> ( pc[t] = "idle" )

\* A thread waits for the mutex while the other, which holds it, is mining.
C19_Witness ==
    \E t \in Threads : \E u \in Threads \ {t} :
        /\ pc[t] = "mineBlock"
        /\ chainMutex = t
        /\ AtLock(u)
        /\ difficulty = 1

\* Two records were constructed from the same sender, type and data while the
\* clock read the same second.
SameInputs(a, b) ==
    /\ a.sender = b.sender
    /\ a.type = b.type
    /\ a.data = b.data
    /\ a.timestamp = b.timestamp

\* C20: any two submitted records that were constructed from the same
\* (sender, type, data) in the same second have the same serialize() output
\* and the same id, and a block of the chain made to hold the one has the
\* same hash as that block made to hold the other.
C20_SameSecondSameRecord ==
    \A i \in 1..Len(submitted) : \A j \in 1..Len(submitted) :
        SameInputs(submitted[i], submitted[j]) =>
            /\ serialize(submitted[i]) = serialize(submitted[j])
            /\ submitted[i].id = submitted[j].id
            /\ \A k \in 1..Len(chain) :
                  calculateHash([chain[k] EXCEPT !.transactions = <<submitted[i]>>])
                      = calculateHash([chain[k] EXCEPT !.transactions = <<submitted[j]>>])

\* Two records with a payload, built by two calls from the same inputs in
\* the same second, have been taken, and a block has been mined.
C20_Witness ==
    /\ Quiescent
    /\ Len(chain) >= 2
    /\ \E i \in 1..Len(submitted) : \E j \in 1..Len(submitted) :
          /\ i < j
          /\ SameInputs(submitted[i], submitted[j])
          /\ submitted[i].data # <<>>

\* The transaction createGenesisBlock builds when the clock reads t.
GenesisTransactionAt(t) ==
    Transaction(GenesisSender, USER_REGISTRATION, GenesisData, t)

\* C21: the genesis transaction of a constructed ledger has the field values
\* and the serialize() output of the genesis transaction of a ledger
\* constructed with the same arguments at any other clock reading.
C21_GenesisIdentical ==
    Constructed =>
        \A t \in 1..MaxTime :
            /\ chain[1].transactions[1] = GenesisTransactionAt(t)
            /\ serialize(chain[1].transactions[1]) = serialize(GenesisTransactionAt(t))

\* The places of a pool at which it holds the record tx.
PlacesInPool(tx, pool) == {k \in 1..Len(pool) : pool[k] = tx}

\* The places (block, position in the block) at which a chain holds tx.
PlacesInChain(tx, c) ==
    {ij \in UNION {{i} \X (1..Len(c[i].transactions)) : i \in 1..Len(c)} :
        c[ij[1]].transactions[ij[2]] = tx}

\* C22: when a thread's addTransaction call returns, at once or through the
\* mining pass it went into, the record the call submitted (the last one of
\* the thread's user) is at exactly one place of the ledger: in the pending
\* pool or in one block of the chain, never in neither and never in both.
C22_SubmitAlwaysSucceeds ==
    [][ \A t \in Threads :
          ( pc[t] \in {"addTransaction", "erasePending"} /\ pc'[t] = "idle" ) =>
              LET mine == RecordsOf(t, submitted')
                  tx   == mine[Len(mine)]
              IN  /\ Len(mine) >= 1
                  /\ Cardinality(PlacesInPool(tx, pendingTransactions'))
                        + Cardinality(PlacesInChain(tx, chain')) = 1 ]_vars

\* Both outcomes have happened: one thread's record was mined into a block
\* by the call that submitted it, and a later record is in the pool, both
\* calls having returned.
C22_Witness ==
    /\ Constructed
    /\ \A t \in Threads : pc[t] = "idle"
    /\ maxTransactionsPerBlock = 2
    /\ Len(submitted) = 3
    /\ PlacesInChain(submitted[2], chain) = {<<2, 2>>}
    /\ PlacesInPool(submitted[3], pendingTransactions) = {1}

\* The Block objects that exist: those of the chain and those being mined.
Blocks ==
    {chain[i] : i \in 1..Len(chain)} \cup ({newBlock[p] : p \in Procs} \ {NoBlock})

\* C23: of every block that exists, mined or not, written into from outside
\* or not, isValid() is true exactly when the stored hash begins with
\* `difficulty` '0' characters and equals the hash recomputed from the
\* block's fields; a block that has the zeros but another hash than its
\* fields give is not valid, and neither is one whose hash is that of its
\* fields but lacks the zeros.
C23_IsValidBothChecks ==
    \A b \in Blocks :
        /\ isValid(b) <=>
              ( HasLeadingZeros(b.hash, b.difficulty) /\ b.hash = calculateHash(b) )
        /\ ( HasLeadingZeros(b.hash, b.difficulty) /\ b.hash # calculateHash(b) )
              => ~isValid(b)
        /\ ( b.hash = calculateHash(b) /\ ~HasLeadingZeros(b.hash, b.difficulty) )
              => ~isValid(b)

\* At difficulty 1 the three kinds of block exist at once: the genesis block
\* (valid), a block of the chain whose payload was overwritten and whose
\* stored hash still begins with '0', and a block under mining whose hash is
\* that of its fields and does not begin with '0'.
C23_Witness ==
    /\ difficulty = 1
    /\ Len(chain) >= 2
    /\ isValid(chain[1])
    /\ \E i \in 2..Len(chain) :
          /\ HasLeadingZeros(chain[i].hash, 1)
          /\ chain[i].hash # calculateHash(chain[i])
    /\ pc[Writer] = "mineBlock"
    /\ newBlock[Writer].hash = calculateHash(newBlock[Writer])
    /\ ~HasLeadingZeros(newBlock[Writer].hash, 1)

\* Caller p has constructed its block and not yet called mineBlock on it.
Unmined(p) == pc[p] = "mineBlock" /\ newBlock[p].nonce = 0

\* C24: isValid() is false of a block between its construction and the call
\* of mineBlock, and true of it when mineBlock has returned, for every block
\* and at every difficulty d >= 0.
C24_IsValidTellsMined ==
    \A p \in Procs :
        /\ Unmined(p) => ~isValid(newBlock[p])
        /\ pc[p] = AfterMineBlock(p) => isValid(newBlock[p])

\* C25: a block is constructed with nonce 0 and the hash of its fields at
\* nonce 0; every iteration of mineBlock tries the nonce one above the last,
\* so 1, 2, 3, ... in order; and mineBlock returns at the least nonce n >= 1
\* whose hash meets the target, which is 1 at difficulty 0.
C25_MinesLeastNonce ==
    [][ \A p \in Procs :
          /\ ( pc[p] # "mineBlock" /\ pc'[p] = "mineBlock" ) =>
                /\ newBlock'[p].nonce = 0
                /\ newBlock'[p].hash = calculateHash(newBlock'[p])
          /\ ( pc[p] = "mineBlock" /\ newBlock'[p] # newBlock[p] ) =>
                /\ newBlock'[p].nonce = newBlock[p].nonce + 1
                /\ newBlock'[p].nonce >= 1
          /\ ( pc[p] = "mineBlock" /\ pc'[p] = AfterMineBlock(p) ) =>
                LET n == newBlock'[p].nonce IN
                /\ n >= 1
                /\ MeetsTarget(newBlock'[p])
                /\ \A m \in 1..(n - 1) : ~MeetsTarget(MineIteration(newBlock[p], m))
                /\ difficulty = 0 => n = 1 ]_vars

\* C26: no step of mineBlock changes the index, the previousHash, the
\* timestamp, the difficulty or the transactions (content and order) of the
\* block it mines, whatever the clock does meanwhile: from construction to
\* the return of mineBlock only nonce and hash change.
C26_MineChangesNonceAndHashOnly ==
    [][ \A p \in Procs :
          pc[p] = "mineBlock" =>
              /\ newBlock'[p].index = newBlock[p].index
              /\ newBlock'[p].previousHash = newBlock[p].previousHash
              /\ newBlock'[p].timestamp = newBlock[p].timestamp
              /\ newBlock'[p].difficulty = newBlock[p].difficulty
              /\ newBlock'[p].transactions = newBlock[p].transactions ]_vars

\* mineBlock has returned, after more than one iteration and a tick of the
\* clock, a block of two different transactions built in an earlier second.
C26_Witness ==
    \E t \in Threads :
        /\ pc[t] = "pushBlock"
        /\ newBlock[t].nonce > 1
        /\ newBlock[t].hash # Block(newBlock[t].index, newBlock[t].previousHash,
                                    newBlock[t].transactions, newBlock[t].difficulty,
                                    newBlock[t].timestamp).hash
        /\ newBlock[t].timestamp < now
        /\ Len(newBlock[t].transactions) = 2
        /\ newBlock[t].transactions[1] # newBlock[t].transactions[2]

\* The indexes (counted from 0) of the blocks after the genesis block that
\* fail one of the two tests of the validation loop.
FailingIndexes ==
    {i \in 1..(Len(chain) - 1) :
        \/ ~( HasLeadingZeros(chain[i + 1].hash, chain[i + 1].difficulty)
              /\ chain[i + 1].hash = calculateHash(chain[i + 1]) )
        \/ chain[i + 1].previousHash # chain[i].hash}

\* C27: isChainValid() is true exactly when every block from index 1 to the
\* last is valid and stores the hash of the block before it; when it is
\* false the index its loop stops at is the lowest failing one; and the
\* genesis block is not checked, so a chain of one block validates whatever
\* that block holds.
C27_ChainValidFromIndexOne ==
    Constructed =>
        /\ isChainValid <=> FailingIndexes = {}
        /\ FailingIndexes = {} => FailingIndex(chain, 1) = -1
        /\ FailingIndexes # {} =>
              /\ FailingIndex(chain, 1) \in FailingIndexes
              /\ \A i \in FailingIndexes : FailingIndex(chain, 1) <= i
        /\ Len(chain) = 1 => isChainValid

\* The payload of the genesis block was overwritten, so isValid() is false
\* of it, and the chain, grown to three blocks, validates.
C27_Witness ==
    /\ Quiescent
    /\ Len(chain) = 3
    /\ ~isValid(chain[1])
    /\ chain[1].transactions[1].data # GenesisData
    /\ isChainValid
    /\ FailingIndex(chain, 1) = -1

\* C28: a step that changes the contents of a block that has a successor
\* (the genesis block included) and leaves the block self-consistent, mined
\* again to the hash of its new contents, a hash other than the one it
\* stored, makes isChainValid() false although isValid() is true of every
\* block: the successor still stores the old hash.
C28_ReminedBlockBreaksLink ==
    [][ \A i \in 1..(Len(chain) - 1) :
          ( /\ Len(chain') = Len(chain)
            /\ chain'[i].transactions # chain[i].transactions
            /\ isValid(chain'[i])
            /\ chain'[i].hash # chain[i].hash ) =>
                /\ chain'[i + 1].previousHash = chain[i].hash
                /\ chain'[i + 1].previousHash # chain'[i].hash
                /\ ~isChainValid' ]_vars

\* At difficulty 1 the genesis block of a chain of three was rewritten and
\* mined again: isValid() is true of every block, the genesis block holds
\* another payload and another hash than chain[1] stores, and the chain does
\* not validate.
C28_Witness ==
    /\ Quiescent
    /\ difficulty = 1
    /\ Len(chain) = 3
    /\ \A i \in 1..3 : isValid(chain[i])
    /\ chain[1].transactions[1].data # GenesisData
    /\ chain[2].previousHash # chain[1].hash
    /\ ~isChainValid

\* C29: in every state that addTransaction and minePendingTransactionsPublic
\* calls reach, every block of the chain has the index of its place in the
\* chain (the genesis block 0) and the difficulty of the ledger, and no step
\* changes the difficulty or the maxTransactionsPerBlock of the ledger.
C29_IndexAndDifficultyUniform ==
    /\ [] ( \A i \in 1..Len(chain) :
              /\ chain[i].index = i - 1
              /\ chain[i].difficulty = difficulty )
    /\ [][ /\ difficulty' = difficulty
           /\ maxTransactionsPerBlock' = maxTransactionsPerBlock ]_vars

\* At difficulty 1, after two submissions that each mined a block and a
\* minePendingTransactionsPublic call, the chain has three blocks.
C29_Witness ==
    /\ Quiescent
    /\ \A t \in Threads : pc[t] = "idle"
    /\ difficulty = 1
    /\ Len(chain) = 3
    /\ chain[3].index = 2
    /\ mineCalls = 1
    /\ Len(submitted) = 2

\* C30: with maxTransactionsPerBlock = N >= 1, the pool holds fewer than N
\* transactions whenever the mutex is free, so whenever no call is in
\* progress; an addTransaction that goes into the mining pass does so on a
\* pool of exactly N, all of which its block takes; and every pass, that of
\* an auto-mining addTransaction included, returns with the pool empty.
C30_AutoMineBoundsPool ==
    /\ [] ( ( maxTransactionsPerBlock >= 1 /\ Quiescent ) =>
               Len(pendingTransactions) < maxTransactionsPerBlock )
    /\ [][ \A t \in Threads :
             maxTransactionsPerBlock >= 1 =>
                 /\ ( pc[t] = "addTransaction" /\ pc'[t] = "mineBlock" ) =>
                       /\ Len(pendingTransactions') = maxTransactionsPerBlock
                       /\ newBlock'[t].transactions = pendingTransactions'
                 /\ ( pc[t] = "pushBlock" /\ pc'[t] = "erasePending"
                      /\ txCount[t] = maxTransactionsPerBlock ) =>
                       Len(chain'[Len(chain')].transactions) = maxTransactionsPerBlock
                 /\ ( pc[t] = "erasePending" /\ pc'[t] = "idle" ) =>
                       pendingTransactions' = <<>> ]_vars

\* With maxTransactionsPerBlock = 2, a submission filled the pool to 2 and
\* mined both into a block while the other thread waited with a third; all
\* calls have returned and the pool holds that third alone.
C30_Witness ==
    /\ maxTransactionsPerBlock = 2
    /\ \A t \in Threads : pc[t] = "idle"
    /\ Quiescent
    /\ mineCalls = 0
    /\ Len(submitted) = 3
    /\ Len(chain) = 2
    /\ Len(chain[2].transactions) = 2
    /\ Len(pendingTransactions) = 1
    /\ submitted[2].sender # submitted[3].sender

\* C31: whenever no thread holds the mutex, no mining pass is under way and
\* the blocks after the genesis block and the pool together hold as many
\* transactions as addTransaction calls have completed; and the chain grows
\* only by one block at a time, a block whose mineBlock has returned and of
\* which isValid() is true.
C31_PassAllOrNothing ==
    /\ [] ( Quiescent =>
              /\ \A t \in Threads : ~InPass(t)
              /\ Len(TxsOf(Tail(chain))) + Len(pendingTransactions) = Len(submitted) )
    /\ [][ chain' # chain =>
             \E p \in Procs :
                 /\ pc[p] = AfterMineBlock(p)
                 /\ isValid(newBlock[p])
                 /\ chain' = Append(chain, newBlock[p]) ]_vars

\* At difficulty 1 a pass has completed after a search of several nonces and
\* appended a block of two transactions; a third submission has returned and
\* is in the pool, and the mutex is free.
C31_Witness ==
    /\ Quiescent
    /\ \A t \in Threads : pc[t] = "idle"
    /\ difficulty = 1
    /\ Len(chain) = 2
    /\ chain[2].nonce > 1
    /\ Len(chain[2].transactions) = 2
    /\ Len(submitted) = 3
    /\ Len(pendingTransactions) = 1

\* C32: a thread runs minePendingTransactions only while it holds chainMutex:
\* it enters the mining pass only from addTransaction or from
\* minePendingTransactionsPublic, in the step in which it takes the free
\* mutex, and it holds the mutex at every step of the pass.
C32_PassOnlyUnderLock ==
    /\ [] ( \A t \in Threads : InPass(t) => chainMutex = t )
    /\ [][ \A t \in Threads :
             /\ ( ~InPass(t) /\ InPass(t)' ) =>
                   /\ AtLock(t)
                   /\ chainMutex = NoThread
                   /\ chainMutex' = t
             /\ ( InPass(t) /\ InPass(t)' ) => chainMutex' = t ]_vars

\* A thread is in a pass it entered from minePendingTransactionsPublic (the
\* pool is below the threshold), holding the mutex, while the other thread
\* has called addTransaction and waits.
C32_Witness ==
    \E t \in Threads : \E u \in Threads \ {t} :
        /\ pc[t] = "mineBlock"
        /\ chainMutex = t
        /\ maxTransactionsPerBlock = 2
        /\ Len(pendingTransactions) = 1
        /\ mineCalls = 1
        /\ pc[u] = "addTransaction"

\* The hashed fields of a transaction.
FieldsOf(tx) == << tx.sender, tx.type, tx.timestamp, tx.data >>

\* The hashed components of a block.
HashedFields(b) ==
    << b.index, b.previousHash, b.timestamp,
       [i \in 1..Len(b.transactions) |-> FieldsOf(b.transactions[i])], b.nonce >>

\* C33: any two submitted transactions that differ in a hashed field have
\* different serialize() outputs, and any two blocks that differ in a
\* hashed component (index, previousHash, timestamp, transaction fields,
\* nonce) feed different byte strings to sha256.
C33_HashInputInjective ==
    /\ \A i \in 1..Len(submitted) : \A j \in 1..Len(submitted) :
          FieldsOf(submitted[i]) # FieldsOf(submitted[j]) =>
              serialize(submitted[i]) # serialize(submitted[j])
    /\ \A a \in Blocks : \A b \in Blocks :
          HashedFields(a) # HashedFields(b) => HashInput(a) # HashInput(b)

\* C34: a chain that isChainValid() accepts has no block with a timestamp
\* earlier than that of the block before it, and none with a timestamp
\* later than the current time.
C34_ChainValidChecksTimestamps ==
    (Constructed /\ isChainValid) =>
        /\ \A i \in 2..Len(chain) : chain[i - 1].timestamp <= chain[i].timestamp
        /\ \A i \in 1..Len(chain) : chain[i].timestamp <= now

\* C35: with maxTransactionsPerBlock = N >= 1 and no call of
\* minePendingTransactionsPublic, once n addTransaction calls have returned
\* the chain has 1 + n \div N blocks and the pool n % N transactions; and
\* whatever N is, the chain grows by one block at a time and never has more
\* blocks, besides the genesis block, than calls that were made.
C35_LengthAfterSubmits ==
    /\ [] ( ( /\ Quiescent
              /\ maxTransactionsPerBlock >= 1
              /\ mineCalls = 0 ) =>
                 /\ Len(chain) = 1 + (Len(submitted) \div maxTransactionsPerBlock)
                 /\ Len(pendingTransactions) = Len(submitted) % maxTransactionsPerBlock )
    /\ [] ( Constructed => Len(chain) <= 1 + Len(submitted) + mineCalls )
    /\ [][ Len(chain') \in {Len(chain), Len(chain) + 1} ]_vars

C35_Witness ==
    /\ Quiescent
    /\ \A t \in Threads : pc[t] = "idle"
    /\ maxTransactionsPerBlock = 2
    /\ mineCalls = 0
    /\ Len(submitted) = 3
    /\ Len(chain) = 2
    /\ Len(pendingTransactions) = 1

\* C36: with maxTransactionsPerBlock = 0 every addTransaction call enters
\* the mining pass with a block of zero transactions, every block appended
\* holds zero transactions, and no step takes a transaction out of the
\* pool: the pool is the sequence of all submitted transactions, a
\* minePendingTransactionsPublic call leaves it as it was, and when the
\* calls have returned and none was minePendingTransactionsPublic the chain
\* has one block per submission besides the genesis block.
C36_ZeroThresholdMinesEmptyBlocks ==
    /\ [] ( ( Constructed /\ maxTransactionsPerBlock = 0 ) =>
              /\ pendingTransactions = submitted
              /\ \A i \in 2..Len(chain) : chain[i].transactions = <<>>
              /\ \A t \in Threads : InPass(t) =>
                    newBlock[t].transactions = <<>> /\ txCount[t] = 0
              /\ ( Quiescent /\ mineCalls = 0 ) => Len(chain) = 1 + Len(submitted) )
    /\ [][ ( Constructed /\ maxTransactionsPerBlock = 0 ) =>
              /\ \A t \in Threads :
                    ( pc[t] = "addTransaction" /\ pc'[t] # "addTransaction" ) =>
                        /\ pc'[t] = "mineBlock"
                        /\ pendingTransactions' = Append(pendingTransactions, transaction[t])
              /\ \A t \in Threads :
                    pc[t] # "addTransaction" => Len(pendingTransactions') >= Len(pendingTransactions)
              /\ \A t \in Threads :
                    ( pc[t] = "pushBlock" /\ pc'[t] # "pushBlock" ) =>
                        /\ Len(chain') = Len(chain) + 1
                        /\ chain'[Len(chain')].transactions = <<>> ]_vars

C36_Witness ==
    /\ Quiescent
    /\ \A t \in Threads : pc[t] = "idle"
    /\ maxTransactionsPerBlock = 0
    /\ Len(submitted) = 2
    /\ mineCalls = 1
    /\ Len(chain) = 4
    /\ Len(pendingTransactions) = 2

\* C37: with a negative maxTransactionsPerBlock the threshold is the value
\* modulo 2^SizeTBits: no addTransaction call enters the mining pass, so
\* without minePendingTransactionsPublic the chain stays the genesis block
\* and the pool holds every submitted transaction; and a pass started by
\* minePendingTransactionsPublic puts the whole pool into its one block and
\* leaves the pool empty.
C37_NegativeThresholdWrapsAround ==
    /\ [] ( ( Constructed /\ maxTransactionsPerBlock < 0 ) =>
              /\ ToSizeT(maxTransactionsPerBlock) =
                     (2 ^ SizeTBits) + maxTransactionsPerBlock
              /\ Len(pendingTransactions) < ToSizeT(maxTransactionsPerBlock)
              /\ Len(chain) <= 1 + mineCalls
              /\ mineCalls = 0 =>
                    Len(chain) = 1 /\ pendingTransactions = submitted
              /\ \A t \in Threads : InPass(t) =>
                    /\ newBlock[t].transactions = pendingTransactions
                    /\ txCount[t] = Len(pendingTransactions) )
    /\ [][ ( Constructed /\ maxTransactionsPerBlock < 0 ) =>
              /\ \A t \in Threads :
                    ( pc[t] = "addTransaction" /\ pc'[t] # "addTransaction" ) =>
                        /\ pc'[t] = "idle"
                        /\ pendingTransactions' = Append(pendingTransactions, transaction[t])
                        /\ chain' = chain
              /\ \A t \in Threads :
                    ( pc[t] = "erasePending" /\ pc'[t] # "erasePending" ) =>
                        /\ pendingTransactions' = <<>>
                        /\ chain[Len(chain)].transactions = pendingTransactions ]_vars

C37_Witness ==
    /\ Quiescent
    /\ \A t \in Threads : pc[t] = "idle"
    /\ maxTransactionsPerBlock < 0
    /\ Len(submitted) = 2
    /\ mineCalls = 1
    /\ Len(chain) = 2
    /\ chain[2].transactions = submitted
    /\ pendingTransactions = <<>>

\* C38: with maxTransactionsPerBlock = N >= 1, when the calls made have
\* returned, the submitted transactions that are not in a block are the
\* last ones submitted, they are the pool, and the one with k entries before
\* it in the pool has been followed by fewer than N - k - 1 submissions;
\* every mining pass, that of minePendingTransactionsPublic included, ends
\* with an empty pool whose transactions are all in the block it appended;
\* and the pool and the chain change only at a step of a thread that is
\* inside addTransaction or a mining pass: without a call nothing is mined.
C38_BoundedConfirmation ==
    /\ [] ( ( Quiescent /\ maxTransactionsPerBlock >= 1 ) =>
              /\ TxsOf(Tail(chain)) \o pendingTransactions = submitted
              /\ \A q \in 1..Len(pendingTransactions) :
                    Len(pendingTransactions) - q < maxTransactionsPerBlock - (q - 1) - 1 )
    /\ [][ ( Constructed /\ maxTransactionsPerBlock >= 1 ) =>
              \A t \in Threads :
                  ( pc[t] = "erasePending" /\ pc'[t] # "erasePending" ) =>
                      /\ pendingTransactions' = <<>>
                      /\ chain[Len(chain)].transactions = pendingTransactions ]_vars
    /\ [][ ( Constructed /\ ( chain' # chain \/ pendingTransactions' # pendingTransactions ) ) =>
              \E t \in Threads :
                  /\ pc[t] \in {"addTransaction", "pushBlock", "erasePending"}
                  /\ pc'[t] # pc[t] ]_vars

C38_Witness ==
    /\ Quiescent
    /\ \A t \in Threads : pc[t] = "idle"
    /\ maxTransactionsPerBlock = 2
    /\ Len(submitted) = 1
    /\ mineCalls = 1
    /\ Len(chain) = 2
    /\ chain[2].transactions = submitted
    /\ pendingTransactions = <<>>

\* The genesis blocks that differ from g in fields other than the stored
\* hash: another timestamp, nonce, index, previousHash, no transactions, a
\* changed payload byte, and all of these at once.
GenesisVariants(g) ==
    ( {[g EXCEPT !.timestamp = ts] : ts \in Stamps}
      \cup {[g EXCEPT !.nonce = n] : n \in {0, g.nonce + 1}}
      \cup {[g EXCEPT !.index = i] : i \in {1, 0 - 1}}
      \cup {[g EXCEPT !.previousHash = h] : h \in {g.hash, <<>>}}
      \cup {[g EXCEPT !.transactions = <<>>]}
      \cup {[g EXCEPT !.transactions[1].data[1] = c] : c \in TamperBytes}
      \cup {[g EXCEPT !.timestamp = 0, !.nonce = 0, !.index = 1,
                      !.previousHash = <<>>, !.transactions = <<>>]} ) \ {g}

\* C39: a ledger and the ledger that differs from it only in fields of the
\* genesis block other than the stored hash get the same result from
\* isChainValid(), and the same failing index when the result is false.
C39_GenesisFieldsNotRead ==
    [] ( Constructed =>
           \A g \in GenesisVariants(chain[1]) :
               /\ g.hash = chain[1].hash
               /\ ( FailingIndex([chain EXCEPT ![1] = g], 1) = -1 ) <=> isChainValid
               /\ FailingIndex([chain EXCEPT ![1] = g], 1) = FailingIndex(chain, 1) )

C39_Witness ==
    /\ Constructed
    /\ Len(chain) = 3
    /\ isChainValid
    /\ isValid(chain[1])
    /\ \E g \in GenesisVariants(chain[1]) :
          /\ ~isValid(g)
          /\ FailingIndex([chain EXCEPT ![1] = g], 1) = -1

\* What the getters return of the ledger.
GetterResults ==
    << isChainValid, Len(chain), Len(pendingTransactions),
       IF chain = <<>> THEN NoBlock ELSE getLatestBlock, difficulty >>

\* C40: a step of isChainValid(), getChainLength(),
\* getPendingTransactionCount(), getLatestBlock() or getChainInfo() changes
\* nothing of the ledger: not the chain, the pool or a block being mined
\* (so no nonce and no hash), not the mutex, and not where the writing
\* thread is; the getters return after it what they returned before it.
C40_GettersReadOnly ==
    [][ pc'[Reader] # pc[Reader] =>
          /\ UNCHANGED << difficulty, maxTransactionsPerBlock, chain,
                          pendingTransactions, chainMutex, transaction, newBlock,
                          txCount, now, aborted, submitted, mineCalls >>
          /\ \A p \in Procs \ {Reader} : pc'[p] = pc[p]
          /\ GetterResults' = GetterResults ]_vars

\* getChainLength has returned to the GET /api handler between two
\* mutations: a block was mined, one transaction waits in the pool, and the
\* writing thread is in no call.
C40_Witness ==
    /\ Quiescent
    /\ pc[Reader] = "getPendingTransactionCount"
    /\ pc[Writer] = "idle"
    /\ Len(chain) = 2
    /\ Len(pendingTransactions) = 1
    /\ Len(submitted) < MaxCalls

====
